---------------------------- MODULE Spec2Model ----------------------------
(***************************************************************************)
(* Collision subsystem of src/main.py: two keyboard-driven boxes and one   *)
(* bouncing ball in a WIDTH x HEIGHT arena.                                *)
(*                                                                         *)
(* Numbers.  pygame.Rect coordinates are Python ints and are modelled as   *)
(* integers (pixels).  The float quantities of the program (x1, y1, x2,    *)
(* y2, ball_pos, ball_vel, the push-out vectors) are modelled in fixed     *)
(* point: SCALE units per pixel (per pixel/second for velocities), every   *)
(* product or quotient rounded to the nearest unit, as IEEE arithmetic     *)
(* rounds to the nearest double.  dt = clock.tick(60) / 1000.0 is an       *)
(* integer number of milliseconds divided by 1000.  Direction inputs       *)
(* (dx1, dy1, dx2, dy2, after the diagonal normalisation) carry DS units   *)
(* per 1.0, and the components of unit normals UNIT units per 1.0.         *)
(* Statements about the ball compare against tolerances of a fraction of   *)
(* a pixel, far above the rounding of either arithmetic.                   *)
(***************************************************************************)
EXTENDS Integers, Sequences, FiniteSets, TLC

VARIABLES x1, y1, x2, y2,      \* float top-left of box1 / box2 (units)
          ball_pos, ball_vel,  \* <<x, y>> (units), <<vx, vy>> (units/s)
          ticks,               \* iterations of the while loop so far
          last,                \* what the last iteration did (history)
          aabb,                \* harness: one call of resolve_aabb_overlap
          circ                 \* harness: one call of circle_rect_overlap

vars == <<x1, y1, x2, y2, ball_pos, ball_vel, ticks, last, aabb, circ>>

-----------------------------------------------------------------------------
(* Program constants                                                       *)
WIDTH == 960
HEIGHT == 720
BOX_SIZE == 50
SPEED == 500
BALL_RADIUS == 22
BALL_START_VEL == <<250, -180>>
BALL_BOUNCE_DAMP == <<95, 100>>     \* 0.95
BALL_FRICTION == <<995, 1000>>      \* 0.995

(* Fixed-point resolution of the modelled floats                           *)
SCALE == 10 * 100                   \* units per pixel
DS == 1000 * 1000                   \* units per 1.0 of a direction input
UNIT == 100 * 100                   \* units per 1.0 of a normal component
INV == 707107                       \* inv = 1 / 1.41421356237, in 1/DS

-----------------------------------------------------------------------------
(* Arithmetic                                                              *)
Abs(a) == IF a < 0 THEN -a ELSE a
Sgn(a) == IF a < 0 THEN -1 ELSE 1
Min2(a, b) == IF a < b THEN a ELSE b      \* Python min(a, b)
Max2(a, b) == IF a > b THEN a ELSE b      \* Python max(a, b)

\* a / d rounded to the nearest integer (d > 0), symmetric in the sign of a
RDiv(a, d) == Sgn(a) * ((2 * Abs(a) + d) \div (2 * d))

\* a * n / d rounded to the nearest integer (d > 0), computed in two parts so
\* that no intermediate product leaves the 32-bit integers of TLC
MulDiv(a, n, d) ==
    LET m == Abs(a)
        k == Abs(n)
    IN  Sgn(a) * Sgn(n) * ((m \div d) * k + RDiv((m % d) * k, d))

\* int(x) of a float x: truncation toward zero, to whole pixels
ToInt(x) == Sgn(x) * (Abs(x) \div SCALE)

\* float(i) of an int
ToFloat(i) == i * SCALE

RECURSIVE SqrtSearch(_, _, _)
SqrtSearch(n, lo, hi) ==
    IF hi - lo <= 1 THEN lo
    ELSE LET mid == (lo + hi) \div 2
         IN  IF mid * mid <= n THEN SqrtSearch(n, mid, hi)
                               ELSE SqrtSearch(n, lo, mid)

\* math.sqrt / math.hypot: the nearest integer to the square root
\* (n < 46340 * 46340)
Sqrt(n) ==
    LET f == SqrtSearch(n, 0, 46340)
    IN  IF n - f * f > f THEN f + 1 ELSE f

-----------------------------------------------------------------------------
(* pygame.Rect                                                             *)
Rect(x, y, w, h) == [x |-> x, y |-> y, w |-> w, h |-> h]
Left(r) == r.x
Right(r) == r.x + r.w
Top(r) == r.y
Bottom(r) == r.y + r.h
Box(x, y) == Rect(ToInt(x), ToInt(y), BOX_SIZE, BOX_SIZE)
MoveBy(r, d) == [r EXCEPT !.x = r.x + d[1], !.y = r.y + d[2]]

\* colliderect with closed intervals: rects that only touch count as colliding
colliderect_Closed(a, b) ==
    /\ a.w > 0 /\ a.h > 0 /\ b.w > 0 /\ b.h > 0
    /\ Left(a) <= Right(b) /\ Left(b) <= Right(a)
    /\ Top(a) <= Bottom(b) /\ Top(b) <= Bottom(a)

\* Rect.colliderect: the rectangles share positive area (touching edges do not
\* collide, a rectangle of zero size collides with nothing)
colliderect(a, b) ==
    /\ a.w > 0 /\ a.h > 0 /\ b.w > 0 /\ b.h > 0
    /\ Left(a) < Right(b) /\ Left(b) < Right(a)
    /\ Top(a) < Bottom(b) /\ Top(b) < Bottom(a)

-----------------------------------------------------------------------------
(* resolve_aabb_overlap(mover, static, vx, vy): the correction <<dx, dy>>  *)
(* it returns; the function also adds it to mover (MoveBy).                *)
\* the axis choice with a strict velocity bias: equal speeds resolve vertically
AxisX_StrictBias(mx, my, vx, vy) ==
    IF Abs(mx) < Abs(my) THEN TRUE
    ELSE IF Abs(my) < Abs(mx) THEN FALSE
    ELSE Abs(vx) > Abs(vy)

\* lines 41-54: TRUE when the correction is horizontal
AxisX(mx, my, vx, vy) ==
    IF Abs(mx) < Abs(my) THEN TRUE
    ELSE IF Abs(my) < Abs(mx) THEN FALSE
    ELSE Abs(vx) >= Abs(vy)               \* equal overlap: use velocity bias

resolve_aabb_overlap(mover, static, vx, vy) ==
    IF ~colliderect(mover, static) THEN <<0, 0>>
    ELSE
      LET overlap_left == Right(mover) - Left(static)
          overlap_right == Right(static) - Left(mover)
          overlap_top == Bottom(mover) - Top(static)
          overlap_bottom == Bottom(static) - Top(mover)
          min_x_overlap == IF overlap_left < overlap_right
                           THEN overlap_left ELSE -overlap_right
          min_y_overlap == IF overlap_top < overlap_bottom
                           THEN overlap_top ELSE -overlap_bottom
      IN  IF AxisX(min_x_overlap, min_y_overlap, vx, vy)
          THEN <<-min_x_overlap, 0>>
          ELSE <<0, -min_y_overlap>>

-----------------------------------------------------------------------------
(* circle_rect_overlap(cx, cy, r, rect): the push-out vector <<px, py>>.   *)
(* cx, cy, r are floats (units); rect is a pygame.Rect (pixels).           *)

\* min(options, key=lambda v: abs(v[0]) + abs(v[1])): the first option of the
\* list whose key is the smallest
OptKey(v) == Abs(v[1]) + Abs(v[2])
MinOption(options) ==
    LET i == CHOOSE j \in 1..Len(options) :
                 /\ \A k \in 1..Len(options) : OptKey(options[j]) <= OptKey(options[k])
                 /\ \A k \in 1..(j - 1) : OptKey(options[k]) > OptKey(options[j])
    IN  options[i]

circle_rect_overlap(cx, cy, r, rect) ==
    LET closest_x == Max2(ToFloat(Left(rect)), Min2(cx, ToFloat(Right(rect))))
        closest_y == Max2(ToFloat(Top(rect)), Min2(cy, ToFloat(Bottom(rect))))
        dx == cx - closest_x
        dy == cy - closest_y
    IN  \* dist_sq > r * r; a component longer than r decides it alone
        IF Abs(dx) > r \/ Abs(dy) > r THEN <<0, 0>>
        ELSE
          LET dist_sq == dx * dx + dy * dy IN
          IF dist_sq > r * r THEN <<0, 0>>
          ELSE IF dist_sq = 0 THEN
            LET left_dist == Abs(cx - ToFloat(Left(rect)))
                right_dist == Abs(ToFloat(Right(rect)) - cx)
                top_dist == Abs(cy - ToFloat(Top(rect)))
                bottom_dist == Abs(ToFloat(Bottom(rect)) - cy)
                options == << <<-(r - left_dist), 0>>,     \* push left
                              <<r - right_dist, 0>>,       \* push right
                              <<0, -(r - top_dist)>>,      \* push up
                              <<0, r - bottom_dist>> >>    \* push down
            IN  MinOption(options)
          ELSE
            LET dist == Sqrt(dist_sq)
                nx == RDiv(dx * UNIT, dist)
                ny == RDiv(dy * UNIT, dist)
                pen == r - dist
            IN  <<RDiv(nx * pen, UNIT), RDiv(ny * pen, UNIT)>>

-----------------------------------------------------------------------------
(* reflect_velocity_over_normal(vx, vy, nx, ny, damp): v' = (v - 2(v.n)n)  *)
(* * damp; the normal carries UNIT units per 1.0, damp is a fraction.      *)
reflect_velocity_over_normal(vx, vy, nx, ny, damp) ==
    LET dot == MulDiv(vx, nx, UNIT) + MulDiv(vy, ny, UNIT)
        rx == vx - MulDiv(2 * dot, nx, UNIT)
        ry == vy - MulDiv(2 * dot, ny, UNIT)
    IN  <<MulDiv(rx, damp[1], damp[2]), MulDiv(ry, damp[1], damp[2])>>

-----------------------------------------------------------------------------
(* One iteration of the while loop of main()                               *)

\* Inputs of an iteration: the elapsed milliseconds clock.tick(60) returned
\* and the four key differences (K_RIGHT - K_LEFT, K_DOWN - K_UP, K_d - K_a,
\* K_s - K_w)
MaxTicks == 1
Millis == {16, 50}
Keys == {-1, 0, 1}

\* dx, dy = keys; if dx and dy: dx *= inv; dy *= inv
Direction(kx, ky) ==
    IF kx # 0 /\ ky # 0 THEN <<kx * INV, ky * INV>> ELSE <<kx * DS, ky * DS>>

\* x += dx * SPEED * dt, then x = max(0, min(x, limit)); dt = ms / 1000 and
\* SCALE units per pixel leave dx * SPEED * ms / DS units
Advance(x, d, ms, limit) ==
    Max2(0, Min2(x + MulDiv(d * SPEED, ms, DS), ToFloat(limit)))

\* the box velocity handed to the ball loop: dx * SPEED (units/s)
BoxVel(d) == <<RDiv(d[1] * SPEED, DS \div SCALE), RDiv(d[2] * SPEED, DS \div SCALE)>>

\* Step 2: the box-box resolution, from the rects of step 1.  Returns the two
\* rects, whether the boxes collided, the two trial corrections and whether
\* the zero-correction fallback ran.
ResolveBoxes(box1, box2, d1, d2) ==
    IF ~colliderect(box1, box2)
    THEN [box1 |-> box1, box2 |-> box2, hit |-> FALSE,
          corr1 |-> 0, corr2 |-> 0, fallback |-> FALSE]
    ELSE
      LET r1 == MoveBy(box1, resolve_aabb_overlap(box1, box2, d1[1], d1[2]))
          r2 == MoveBy(box2, resolve_aabb_overlap(box2, box1, d2[1], d2[2]))
          corr1 == Abs(r1.x - box1.x) + Abs(r1.y - box1.y)
          corr2 == Abs(r2.x - box2.x) + Abs(r2.y - box2.y)
      IN  IF corr1 + corr2 = 0
          THEN LET out ==
                     IF Abs(d1[1]) + Abs(d2[1]) >= Abs(d1[2]) + Abs(d2[2])
                     THEN IF d1[1] > d2[1]
                          THEN <<[box1 EXCEPT !.x = Left(box2) - box1.w], box2>>
                          ELSE <<box1, [box2 EXCEPT !.x = Left(box1) - box2.w]>>
                     ELSE IF d1[2] > d2[2]
                          THEN <<[box1 EXCEPT !.y = Top(box2) - box1.h], box2>>
                          ELSE <<box1, [box2 EXCEPT !.y = Top(box1) - box2.h]>>
               IN  [box1 |-> out[1], box2 |-> out[2], hit |-> TRUE,
                    corr1 |-> corr1, corr2 |-> corr2, fallback |-> TRUE]
          ELSE [box1 |-> r1, box2 |-> r2, hit |-> TRUE,
                corr1 |-> corr1, corr2 |-> corr2, fallback |-> FALSE]

\* the friction step left out
Friction_Skipped(v) == v

\* ball_vel *= BALL_FRICTION, one component
Friction(v) == MulDiv(v, BALL_FRICTION[1], BALL_FRICTION[2])

\* the wall bounce without the change of sign
Damp_NoFlip(v) == MulDiv(v, BALL_BOUNCE_DAMP[1], BALL_BOUNCE_DAMP[2])

\* ball_vel.x = -ball_vel.x * BALL_BOUNCE_DAMP (likewise .y)
Damp(v) == -MulDiv(v, BALL_BOUNCE_DAMP[1], BALL_BOUNCE_DAMP[2])

\* Steps 3 and 4: integration, friction and the four wall checks in order.
\* Returns the ball and which walls it bounced off.
BallVsWalls(pos, vel, ms) ==
    LET r == ToFloat(BALL_RADIUS)
        p0 == <<pos[1] + MulDiv(vel[1], ms, 1000), pos[2] + MulDiv(vel[2], ms, 1000)>>
        v0 == <<Friction(vel[1]), Friction(vel[2])>>
        wl == p0[1] - r < 0
        xl == IF wl THEN r ELSE p0[1]
        vl == IF wl THEN Damp(v0[1]) ELSE v0[1]
        wr == xl + r > ToFloat(WIDTH)
        xr == IF wr THEN ToFloat(WIDTH) - r ELSE xl
        vr == IF wr THEN Damp(vl) ELSE vl
        wt == p0[2] - r < 0
        yt == IF wt THEN r ELSE p0[2]
        vt == IF wt THEN Damp(v0[2]) ELSE v0[2]
        wb == yt + r > ToFloat(HEIGHT)
        yb == IF wb THEN ToFloat(HEIGHT) - r ELSE yt
        vb == IF wb THEN Damp(vt) ELSE vt
    IN  [pos |-> <<xr, yb>>, vel |-> <<vr, vb>>,
         left |-> wl, right |-> wr, top |-> wt, bottom |-> wb]

\* Step 5, one pass of the loop body: the ball against one box moving at mv
BallVsBox(pos, vel, rect, mv) ==
    LET p == circle_rect_overlap(pos[1], pos[2], ToFloat(BALL_RADIUS), rect) IN
    IF p[1] = 0 /\ p[2] = 0
    THEN [pos |-> pos, vel |-> vel, touched |-> FALSE]
    ELSE
      LET nlen == Sqrt(p[1] * p[1] + p[2] * p[2])
          n == IF nlen = 0 THEN <<0, -UNIT>>
               ELSE <<RDiv(p[1] * UNIT, nlen), RDiv(p[2] * UNIT, nlen)>>
          rv == reflect_velocity_over_normal(vel[1] - mv[1], vel[2] - mv[2],
                                             n[1], n[2], BALL_BOUNCE_DAMP)
      IN  [pos |-> <<pos[1] + p[1], pos[2] + p[2]>>,
           vel |-> <<rv[1] + mv[1], rv[2] + mv[2]>>,
           touched |-> TRUE]

\* dist_sq <= r * r of circle_rect_overlap: the circle touches or penetrates
\* the rect
Touches(pos, rect) ==
    LET r == ToFloat(BALL_RADIUS)
        dx == pos[1] - Max2(ToFloat(Left(rect)), Min2(pos[1], ToFloat(Right(rect))))
        dy == pos[2] - Max2(ToFloat(Top(rect)), Min2(pos[2], ToFloat(Bottom(rect))))
    IN  Abs(dx) <= r /\ Abs(dy) <= r /\ dx * dx + dy * dy <= r * r

\* What an iteration leaves in the history variable: its inputs, what held at
\* its start, the rects after step 1 (s1, s2) and after step 2 (box1, box2),
\* the outcome of step 2, the walls the ball bounced off and the boxes it
\* touched
Seen(ms, d1, d2, s1, s2, res, w, c1, c2) ==
    [ran |-> TRUE, ms |-> ms, d1 |-> d1, d2 |-> d2,
     startSep |-> ~colliderect(Box(x1, y1), Box(x2, y2)),
     startFree |-> /\ ~Touches(ball_pos, Box(x1, y1))
                   /\ ~Touches(ball_pos, Box(x2, y2)),
     startVel |-> ball_vel,
     s1 |-> s1, s2 |-> s2,
     hit |-> res.hit, corr1 |-> res.corr1, corr2 |-> res.corr2,
     fallback |-> res.fallback,
     box1 |-> res.box1, box2 |-> res.box2,
     left |-> w.left, right |-> w.right, top |-> w.top, bottom |-> w.bottom,
     touched1 |-> c1.touched, touched2 |-> c2.touched]

Idle == [ran |-> FALSE]

\* Starting states: the state main() constructs, and states of a session in
\* progress (positions in pixels, velocities in pixels/second):
\* <<x1, y1, x2, y2, ball x, ball y, ball vx, ball vy>> in units
Px(n) == n * SCALE
Start ==
    { \* as constructed: (WIDTH - BOX_SIZE) / 1.2, / 2, / 4; ball in the centre
      <<RDiv(Px(WIDTH - BOX_SIZE) * 10, 12), Px(HEIGHT - BOX_SIZE) \div 2,
        Px(WIDTH - BOX_SIZE) \div 4, Px(HEIGHT - BOX_SIZE) \div 2,
        Px(WIDTH) \div 2, Px(HEIGHT) \div 2,
        Px(BALL_START_VEL[1]), Px(BALL_START_VEL[2])>>,
      \* the boxes side by side, edges touching
      <<Px(100), Px(335), Px(150), Px(335), Px(480), Px(360), Px(250), Px(-180)>>,
      \* box1 resting against the left wall, box2 touching it
      <<Px(0), Px(335), Px(50), Px(335), Px(480), Px(360), Px(250), Px(-180)>>,
      \* the boxes corner to corner
      <<Px(100), Px(100), Px(150), Px(150), Px(480), Px(360), Px(-250), Px(180)>>,
      \* the ball heading for the left wall, box1 just right of it
      <<Px(47), Px(335), Px(600), Px(335), Px(24), Px(360), Px(-250), Px(180)>>,
      \* the ball heading for the left wall, no box near
      <<Px(758), Px(335), Px(227), Px(335), Px(25), Px(300), Px(-100), Px(0)>>,
      \* the ball heading for the left side of box1
      <<Px(500), Px(335), Px(227), Px(335), Px(476), Px(360), Px(250), Px(-180)>>,
      \* the ball heading for the top-left corner of box2
      <<Px(758), Px(335), Px(227), Px(335), Px(210), Px(318), Px(250), Px(180)>>,
      \* the ball heading for the top-right corner of the arena
      <<Px(758), Px(335), Px(227), Px(335), Px(935), Px(25), Px(250), Px(-180)>>,
      \* the ball heading for the gap between the boxes, one above the other
      <<Px(500), Px(300), Px(500), Px(396), Px(476), Px(373), Px(250), Px(-180)>>,
      \* the boxes touching in the bottom-right corner, the ball near the floor
      <<Px(860), Px(670), Px(910), Px(670), Px(480), Px(695), Px(250), Px(180)>> }

Init ==
    /\ \E c \in Start :
         /\ x1 = c[1] /\ y1 = c[2] /\ x2 = c[3] /\ y2 = c[4]
         /\ ball_pos = <<c[5], c[6]>>
         /\ ball_vel = <<c[7], c[8]>>
    /\ ticks = 0
    /\ last = Idle
    /\ aabb = Idle
    /\ circ = Idle

\* One iteration of the while loop, steps 1 to 5; each value is bound once, in
\* the order the code computes it
Tick ==
    /\ ticks < MaxTicks
    /\ \E ms \in Millis : \E k \in Keys \X Keys \X Keys \X Keys :
       \E d1 \in {Direction(k[1], k[2])} : \E d2 \in {Direction(k[3], k[4])} :
       \* step 1: move, clamp and sync
       \E nx1 \in {Advance(x1, d1[1], ms, WIDTH - BOX_SIZE)} :
       \E ny1 \in {Advance(y1, d1[2], ms, HEIGHT - BOX_SIZE)} :
       \E nx2 \in {Advance(x2, d2[1], ms, WIDTH - BOX_SIZE)} :
       \E ny2 \in {Advance(y2, d2[2], ms, HEIGHT - BOX_SIZE)} :
       \E s1 \in {Box(nx1, ny1)} : \E s2 \in {Box(nx2, ny2)} :
       \* step 2: box against box, then sync floats
       \E res \in {ResolveBoxes(s1, s2, d1, d2)} :
       \* steps 3 and 4
       \E w \in {BallVsWalls(ball_pos, ball_vel, ms)} :
       \* step 5: box1 then box2
       \E c1 \in {BallVsBox(w.pos, w.vel, res.box1, BoxVel(d1))} :
       \E c2 \in {BallVsBox(c1.pos, c1.vel, res.box2, BoxVel(d2))} :
         /\ x1' = IF res.hit THEN ToFloat(res.box1.x) ELSE nx1
         /\ y1' = IF res.hit THEN ToFloat(res.box1.y) ELSE ny1
         /\ x2' = IF res.hit THEN ToFloat(res.box2.x) ELSE nx2
         /\ y2' = IF res.hit THEN ToFloat(res.box2.y) ELSE ny2
         /\ ball_pos' = c2.pos
         /\ ball_vel' = c2.vel
         /\ last' = Seen(ms, d1, d2, s1, s2, res, w, c1, c2)
    /\ ticks' = ticks + 1
    /\ UNCHANGED <<aabb, circ>>

Next == Tick

Spec == Init /\ [][Next]_vars

-----------------------------------------------------------------------------
(* resolve_aabb_overlap on its own: every mover and static of sides up to  *)
(* MaxSide with the mover's corner in 0..MaxPos, and every pair of         *)
(* intended speeds main() can pass.                                        *)
MaxSide == 3
MaxPos == 6
StaticAt == 3
Speeds == {-DS, -INV, 0, INV, DS}

InitBoxes ==
    /\ x1 = Px(758) /\ y1 = Px(335) /\ x2 = Px(227) /\ y2 = Px(335)
    /\ ball_pos = <<Px(480), Px(360)>>
    /\ ball_vel = <<Px(BALL_START_VEL[1]), Px(BALL_START_VEL[2])>>
    /\ ticks = 0
    /\ last = Idle

InitAABB ==
    /\ InitBoxes
    /\ circ = Idle
    /\ \E x \in 0..MaxPos, y \in 0..MaxPos, w \in 1..MaxSide, h \in 1..MaxSide,
          sw \in 1..MaxSide, sh \in 1..MaxSide, vx \in Speeds, vy \in Speeds :
         aabb = [ran |-> FALSE, mover |-> Rect(x, y, w, h),
                 static |-> Rect(StaticAt, StaticAt, sw, sh),
                 vx |-> vx, vy |-> vy, d |-> <<0, 0>>, moved |-> Rect(x, y, w, h)]

CallResolve ==
    /\ ~aabb.ran
    /\ \E d \in {resolve_aabb_overlap(aabb.mover, aabb.static, aabb.vx, aabb.vy)} :
         aabb' = [aabb EXCEPT !.ran = TRUE, !.d = d,
                              !.moved = MoveBy(aabb.mover, d)]
    /\ UNCHANGED <<x1, y1, x2, y2, ball_pos, ball_vel, ticks, last, circ>>

NextAABB == CallResolve

SpecAABB == InitAABB /\ [][NextAABB]_vars

-----------------------------------------------------------------------------
(* circle_rect_overlap on its own: the ball's radius, a box, and circle    *)
(* centres on a grid of GridStep pixels that covers the box, its edges,    *)
(* its corners and a margin wider than the radius.                         *)
GridN == 22
GridStep == 5
GridBox == Rect(100, 100, BOX_SIZE, BOX_SIZE)
GridAt(i) == Px(Left(GridBox) - 6 * GridStep + i * GridStep)

InitCircle ==
    /\ InitBoxes
    /\ aabb = Idle
    /\ \E i \in 0..GridN, j \in 0..GridN :
         circ = [ran |-> FALSE, cx |-> GridAt(i), cy |-> GridAt(j),
                 r |-> Px(BALL_RADIUS), rect |-> GridBox, p |-> <<0, 0>>]

CallOverlap ==
    /\ ~circ.ran
    /\ \E p \in {circle_rect_overlap(circ.cx, circ.cy, circ.r, circ.rect)} :
         circ' = [circ EXCEPT !.ran = TRUE, !.p = p]
    /\ UNCHANGED <<x1, y1, x2, y2, ball_pos, ball_vel, ticks, last, aabb>>

NextCircle == CallOverlap

SpecCircle == InitCircle /\ [][NextCircle]_vars

-----------------------------------------------------------------------------
(* Vocabulary of the properties                                            *)

\* the rects and the ball as the iteration leaves them
EndBox1 == Box(x1, y1)
EndBox2 == Box(x2, y2)

\* the push-out circle_rect_overlap computes for the ball as it now is
Residual(rect) ==
    circle_rect_overlap(ball_pos[1], ball_pos[2], Px(BALL_RADIUS), rect)

\* a tenth of a pixel: far above the rounding of the arithmetic, far below
\* any penetration the properties are about
Tol == SCALE \div 10

\* a * a + b * b as three digits in base 10000, most significant first, so
\* that squared speeds compare exactly
Base == 10 * 1000
NormSq(v) ==
    LET a1 == Abs(v[1]) \div Base
        a0 == Abs(v[1]) % Base
        b1 == Abs(v[2]) \div Base
        b0 == Abs(v[2]) % Base
        e0 == a0 * a0 + b0 * b0
        e1 == 2 * a1 * a0 + 2 * b1 * b0 + (e0 \div Base)
        e2 == a1 * a1 + b1 * b1 + (e1 \div Base)
    IN  <<e2, e1 % Base, e0 % Base>>
DigitsLess(a, b) ==
    \/ a[1] < b[1]
    \/ a[1] = b[1] /\ a[2] < b[2]
    \/ a[1] = b[1] /\ a[2] = b[2] /\ a[3] < b[3]
Slower(v, w) == DigitsLess(NormSq(v), NormSq(w))      \* |v| < |w|

-----------------------------------------------------------------------------
\* C1: in an iteration that starts with the boxes not overlapping, the two
\* box rects do not overlap once the box-box resolution has run.
C1_BoxesSeparated ==
    (last.ran /\ last.startSep) => ~colliderect(last.box1, last.box2)

\* C2: in an iteration that starts with the ball clear of both boxes, the
\* push-out recomputed after the ball loop is (0, 0), to within Tol, against
\* box1 and against box2.
C2_BallClearOfBoxes ==
    (last.ran /\ last.startFree) =>
        /\ OptKey(Residual(EndBox1)) <= Tol
        /\ OptKey(Residual(EndBox2)) <= Tol

\* C3: at the end of every iteration each box lies inside the arena.
C3_BoxesInArena ==
    last.ran =>
        /\ 0 <= x1 /\ x1 <= Px(WIDTH - BOX_SIZE)
        /\ 0 <= y1 /\ y1 <= Px(HEIGHT - BOX_SIZE)
        /\ 0 <= x2 /\ x2 <= Px(WIDTH - BOX_SIZE)
        /\ 0 <= y2 /\ y2 <= Px(HEIGHT - BOX_SIZE)

\* C4: when the boxes overlap at step 2, only the box with the smaller trial
\* correction is moved; the other keeps the position step 1 gave it.
C4_OnlySmallerCorrection ==
    (last.ran /\ last.hit) =>
        /\ last.box1 = last.s1 \/ last.box2 = last.s2
        /\ last.corr1 < last.corr2 => last.box2 = last.s2
        /\ last.corr2 < last.corr1 => last.box1 = last.s1

-----------------------------------------------------------------------------
\* the ball touched no box that was being driven (a box with no key pressed
\* has velocity (0, 0) in the ball loop)
NoMovingBoxTouched ==
    /\ last.touched1 => last.d1 = <<0, 0>>
    /\ last.touched2 => last.d2 = <<0, 0>>

LeftBounceOnly == last.ran /\ last.left /\ ~last.touched1 /\ ~last.touched2

\* C6 as claimed: after crossing the left wall and touching no box, the centre
\* is at x = radius and the x velocity is -(x velocity at the start) * 0.95.
C6_LeftBounceDampOnly ==
    LeftBounceOnly =>
        /\ ball_pos[1] = Px(BALL_RADIUS)
        /\ Abs(ball_vel[1] + MulDiv(last.startVel[1], 95, 100)) <= 2

\* C6 as amended: after crossing the left wall and touching no box, the centre
\* is at x = radius and the x velocity is -(x velocity at the start) * 0.995 *
\* 0.95 (0.94525 = 189/200 + 1/4000), within two units of rounding.
C6_LeftBounceFrictionAndDamp ==
    LeftBounceOnly =>
        /\ ball_pos[1] = Px(BALL_RADIUS)
        /\ Abs(ball_vel[1] + MulDiv(last.startVel[1], 189, 200)
                           + MulDiv(last.startVel[1], 1, 4000)) <= 2

\* C6 witness: velocity (-100, 0) carried across the left wall ends as 94.525
C6_Witness ==
    /\ LeftBounceOnly
    /\ last.startVel = <<Px(-100), 0>>
    /\ ball_pos[1] = Px(BALL_RADIUS)
    /\ ball_vel[1] = 94525

-----------------------------------------------------------------------------
\* the circle's centre lies on the boundary of or inside the rect
CentreInRect(cx, cy, rect) ==
    /\ Px(Left(rect)) <= cx /\ cx <= Px(Right(rect))
    /\ Px(Top(rect)) <= cy /\ cy <= Px(Bottom(rect))

\* the four axis-aligned displacements that carry the circle clear of the rect
Needed(cx, cy, r, rect) ==
    { cx - Px(Left(rect)) + r, Px(Right(rect)) - cx + r,
      cy - Px(Top(rect)) + r, Px(Bottom(rect)) - cy + r }

\* C7: for a centre on the boundary of or inside the rect, circle_rect_overlap
\* returns a single-axis vector whose length is the smallest of the four
\* axis-aligned corrections that separate the circle from the rect, and the
\* circle moved by it no longer penetrates the rect.
C7_DegeneratePushSeparates ==
    (circ.ran /\ CentreInRect(circ.cx, circ.cy, circ.rect)) =>
        /\ (circ.p[1] = 0) # (circ.p[2] = 0)
        /\ \A n \in Needed(circ.cx, circ.cy, circ.r, circ.rect) : OptKey(circ.p) <= n
        /\ OptKey(circ.p) \in Needed(circ.cx, circ.cy, circ.r, circ.rect)
        /\ OptKey(circle_rect_overlap(circ.cx + circ.p[1], circ.cy + circ.p[2],
                                      circ.r, circ.rect)) <= Tol

-----------------------------------------------------------------------------
\* the depth of the overlap on each axis: the shorter of the two ways out
XOverlap(m, s) == Min2(Right(m) - Left(s), Right(s) - Left(m))
YOverlap(m, s) == Min2(Bottom(m) - Top(s), Bottom(s) - Top(m))

\* C8: for an overlapping pair, resolve_aabb_overlap moves the mover along
\* exactly one axis, the one of the smaller overlap, by exactly that overlap,
\* and the moved mover no longer overlaps the static; with equal overlaps it
\* moves along the axis of the larger intended speed, and horizontally when
\* the speeds are equal too.
C8_AxisChoice ==
    (aabb.ran /\ colliderect(aabb.mover, aabb.static)) =>
        LET xo == XOverlap(aabb.mover, aabb.static)
            yo == YOverlap(aabb.mover, aabb.static)
            dx == aabb.d[1]
            dy == aabb.d[2]
        IN  /\ (dx = 0) # (dy = 0)
            /\ Abs(dx) + Abs(dy) = Min2(xo, yo)
            /\ ~colliderect(aabb.moved, aabb.static)
            /\ xo < yo => dy = 0
            /\ yo < xo => dx = 0
            /\ (xo = yo /\ Abs(aabb.vx) > Abs(aabb.vy)) => dy = 0
            /\ (xo = yo /\ Abs(aabb.vx) < Abs(aabb.vy)) => dx = 0
            /\ (xo = yo /\ Abs(aabb.vx) = Abs(aabb.vy)) => dy = 0

\* C8 witness: equal overlaps and equal intended speeds, resolved horizontally
C8_Witness ==
    /\ aabb.ran /\ colliderect(aabb.mover, aabb.static)
    /\ XOverlap(aabb.mover, aabb.static) = YOverlap(aabb.mover, aabb.static)
    /\ Abs(aabb.vx) = Abs(aabb.vy) /\ aabb.vx # 0
    /\ aabb.d[1] # 0 /\ aabb.d[2] = 0

-----------------------------------------------------------------------------
\* C9: at the end of every iteration the ball's centre is at least a radius
\* away from every wall.
C9_BallInArena ==
    last.ran =>
        /\ Px(BALL_RADIUS) <= ball_pos[1] /\ ball_pos[1] <= Px(WIDTH - BALL_RADIUS)
        /\ Px(BALL_RADIUS) <= ball_pos[2] /\ ball_pos[2] <= Px(HEIGHT - BALL_RADIUS)

\* C10: whenever the boxes collide at step 2, one of the two trial corrections
\* is non-zero, and the zero-correction fallback does not run.
C10_FallbackNeverRuns ==
    (last.ran /\ last.hit) => (last.corr1 + last.corr2 > 0 /\ ~last.fallback)

\* C10 witness: an iteration in which the boxes collided at step 2
C10_Witness == last.ran /\ last.hit /\ last.corr1 > 0 /\ last.corr2 > 0

=============================================================================
